---- MODULE Spec2Model ----
(***************************************************************************)
(* A model of azure_log_analytics.py: main() ingests the activity-log      *)
(* stream once per subscription (ingest_subscription_logs), enriches and   *)
(* summarizes every collected table (process_log_data) and renders the     *)
(* report (generate_excel_report).                                         *)
(*                                                                         *)
(* Strings are modelled by small integers whose order is the strings'      *)
(* order; an operation name is the sequence of its '/'-separated segments. *)
(***************************************************************************)
EXTENDS Integers, Sequences, FiniteSets, TLC

\* ---------------------------------------------------------------- bounds
\* Records the stream delivers during one ingest_subscription_logs call.
MaxEvents == 2
\* Rows of a collected table handed to process_log_data (ProcSpec).
MaxRows == 3
\* Entries of a resource directory returned by resources.list (ProcSpec).
MaxDir == 2

\* ------------------------------------------------------------- constants
\* The cell a left merge leaves for a row without a match (NaN).
NULL == 0
\* generate_excel_report shows operation_summary.head(5).
TopN == 5

\* The lists subscription_client.subscriptions.list() returns.
SubscriptionLists == {<<>>, <<1>>, <<1, 2>>}
SubscriptionIds == {1, 2}
\* Execution contexts on which the stream delivers on_event callbacks.
Contexts == {1, 2}

ResourceIds == {1, 2}
Metadata == {1, 2}

\* The annotations on_event reads, in the order it reads them.
AnnotationKeys ==
  << "microsoft.azure.monitor.metricValueTimeUTC", "resourceId",
     "operationName", "level" >>

VARIABLES
  pc,                \* position of main()
  subs,              \* the list main() iterates (line 38)
  cur,               \* index of the current subscription in the running loop
  tables,            \* tables[s]: the DataFrame df of s's ingest call
  stream,            \* stream[s]: the raw records delivered to s's ingest call
  cb,                \* cb[c]: the on_event callback running on context c
  log_data,          \* keys of main()'s log_data, in insertion order
  directory,         \* directory[s]: what resources.list returned for s
  analysis_results,  \* process_log_data's analysis_results
  report,            \* the rows generate_excel_report writes per subscription
  out                \* the lines printed so far

vars ==
  << pc, subs, cur, tables, stream, cb, log_data, directory,
     analysis_results, report, out >>

\* --------------------------------------------------------------- helpers
Range(f) == {f[i] : i \in DOMAIN f}

RECURSIVE Flatten(_)
Flatten(ss) == IF ss = <<>> THEN <<>> ELSE Head(ss) \o Flatten(Tail(ss))

SeqsUpTo(S, n) == UNION {[1..k -> S] : k \in 0..n}

\* Order of two operation names as strings: segment by segment, a proper
\* prefix first.
RECURSIVE LessName(_, _)
LessName(a, b) ==
  IF b = <<>> THEN FALSE
  ELSE IF a = <<>> THEN TRUE
  ELSE IF Head(a) # Head(b) THEN Head(a) < Head(b)
  ELSE LessName(Tail(a), Tail(b))

\* ------------------------------------------------------------- on_event
\* The dict on_event builds from a record (lines 60-66); every annotation
\* is read with [], so a missing key raises KeyError.
HasAllAnnotations(rec) ==
  \A i \in DOMAIN AnnotationKeys : AnnotationKeys[i] \in DOMAIN rec.annotations

event_dict(rec) ==
  [ TimeGenerated |-> rec.annotations["microsoft.azure.monitor.metricValueTimeUTC"],
    ResourceId    |-> rec.annotations["resourceId"],
    OperationName |-> rec.annotations["operationName"],
    Level         |-> rec.annotations["level"],
    Message       |-> rec.body ]

\* df.loc[idx] = row: a new row when idx is no label of df, else the row
\* with that label is replaced.  Labels are 0 .. len(df)-1.
SetLoc(df, idx, row) ==
  IF idx >= Len(df) THEN Append(df, row) ELSE [df EXCEPT ![idx + 1] = row]

\* ----------------------------------------------------- process_log_data
\* sub_df.merge(resource_df, on='ResourceId', how='left'): every left row,
\* in order, once per right row with its ResourceId (in right order), or
\* once with NaN cells when there is none.
Joined(l, r) ==
  [ TimeGenerated |-> l.TimeGenerated, ResourceId |-> l.ResourceId,
    OperationName |-> l.OperationName, Level |-> l.Level,
    Message |-> l.Message, ResourceGroup |-> r.ResourceGroup,
    Location |-> r.Location, Tags |-> r.Tags ]

NoMatch(rid) ==
  [ResourceId |-> rid, ResourceGroup |-> NULL, Location |-> NULL, Tags |-> NULL]

MergeLeft(sub_df, resource_df) ==
  Flatten([ i \in DOMAIN sub_df |->
    LET l == sub_df[i]
        m == SelectSeq(resource_df, LAMBDA r : r.ResourceId = l.ResourceId)
    IN IF m = <<>> THEN << Joined(l, NoMatch(l.ResourceId)) >>
       ELSE [ j \in DOMAIN m |-> Joined(l, m[j]) ] ])

\* x.split('/')[0]
Category(name) == << Head(name) >>

WithCategory(sub_df) ==
  [ i \in DOMAIN sub_df |->
    LET r == sub_df[i] IN
    [ TimeGenerated |-> r.TimeGenerated, ResourceId |-> r.ResourceId,
      OperationName |-> r.OperationName, Level |-> r.Level,
      Message |-> r.Message, ResourceGroup |-> r.ResourceGroup,
      Location |-> r.Location, Tags |-> r.Tags,
      Category |-> Category(r.OperationName) ] ]

\* The order of two values of a column, as groupby compares them.
LessKey(col, a, b) ==
  IF col = "OperationName" THEN LessName(a, b) ELSE a < b

\* The keys of a groupby in the order the result lists them: sort=True is
\* the default, so ascending.
SortKeys(S, col) ==
  [ j \in 1..Cardinality(S) |->
    CHOOSE k \in S : Cardinality({x \in S : LessKey(col, x, k)}) = j - 1 ]

\* The keys in the order of their first row (what sort=False would give).
FirstRow(df, col, k) ==
  CHOOSE i \in DOMAIN df : df[i][col] = k
                           /\ \A j \in 1..(i - 1) : df[j][col] # k

KeysByFirstRow(df, col) ==
  LET S == {df[i][col] : i \in DOMAIN df}
  IN [ j \in 1..Cardinality(S) |->
       CHOOSE k \in S :
         Cardinality({x \in S : FirstRow(df, col, x) < FirstRow(df, col, k)})
           = j - 1 ]

GroupBySizeUnsorted(df, col) ==
  LET listed == KeysByFirstRow(df, col)
  IN [ j \in DOMAIN listed |->
       [ Key   |-> listed[j],
         Count |-> Cardinality({i \in DOMAIN df : df[i][col] = listed[j]}) ] ]

\* df.groupby(col).size().reset_index(name='Count')
GroupBySize(df, col) ==
  LET sorted == SortKeys({df[i][col] : i \in DOMAIN df}, col)
  IN [ j \in DOMAIN sorted |->
       [ Key   |-> sorted[j],
         Count |-> Cardinality({i \in DOMAIN df : df[i][col] = sorted[j]}) ] ]

op_count(sub_df) == GroupBySize(sub_df, "OperationName")
sev_count(sub_df) == GroupBySize(sub_df, "Level")
res_count(sub_df) == GroupBySize(sub_df, "ResourceId")

\* The value process_log_data stores for one subscription (lines 82-101).
Bundle(sub_df, resource_df) ==
  LET merged == WithCategory(MergeLeft(sub_df, resource_df))
  IN [ subscription_logs |-> merged,
       operation_summary |-> op_count(merged),
       severity_summary  |-> sev_count(merged),
       resource_summary  |-> res_count(merged) ]

\* ------------------------------------------------ generate_excel_report
\* The level the summary sheet counts as "Error Logs".
ErrorLevel == 2

\* df.head(n)
HeadRows(df, n) == SubSeq(df, 1, IF Len(df) < n THEN Len(df) ELSE n)

\* What the report shows for one subscription: the summary-sheet cells and
\* the two tables of the analysis sheet.
Sheet(sub_data) ==
  LET logs == sub_data.subscription_logs
  IN [ TotalLogs     |-> Len(logs),
       ErrorLogs     |-> Len(SelectSeq(logs, LAMBDA r : r.Level = ErrorLevel)),
       ResourceTypes |-> Cardinality({logs[i].ResourceId : i \in DOMAIN logs}),
       TopOperations |-> HeadRows(sub_data.operation_summary, TopN),
       LogSeverity   |-> sub_data.severity_summary ]

\* ------------------------------------------------------------ the inputs
Annotations(time, rid, op, lvl, missing) ==
  [ k \in Range(AnnotationKeys) \ missing |->
      CASE k = "microsoft.azure.monitor.metricValueTimeUTC" -> time
        [] k = "resourceId" -> rid
        [] k = "operationName" -> op
        [] k = "level" -> lvl ]

\* The records the live stream may deliver as its n-th record: complete
\* ones, and ones lacking an annotation.
StreamRecords(n) ==
  { [annotations |-> Annotations(1, rid, <<1, 1>>, 1, {}), body |-> n] :
      rid \in ResourceIds }
  \cup
  { [annotations |-> Annotations(1, 1, <<1, 1>>, 1, {k}), body |-> n] :
      k \in {"operationName", "level"} }

Entry(rid, m) ==
  [ResourceId |-> rid, ResourceGroup |-> m, Location |-> m, Tags |-> m]

DirEntries == {Entry(rid, m) : rid \in ResourceIds, m \in Metadata}

\* Directories resources.list may return: entries in any order, a
\* ResourceId possibly absent or listed more than once.
Directories == SeqsUpTo(DirEntries, MaxDir)

MainDirectories == {<<>>, <<Entry(1, 1)>>, <<Entry(1, 1), Entry(1, 2)>>}

\* Tables process_log_data may be handed: events of two resources and two
\* operations, at two levels.
ProcRow(rid, op, lvl) ==
  [ TimeGenerated |-> 1, ResourceId |-> rid, OperationName |-> op,
    Level |-> lvl, Message |-> 1 ]

ProcRows ==
  { ProcRow(1, <<1>>, 1), ProcRow(1, <<1, 1>>, 2),
    ProcRow(2, <<1>>, 2), ProcRow(2, <<1, 1>>, 1) }

ProcTables == SeqsUpTo(ProcRows, MaxRows)

\* ----------------------------------------------------------------- state
Idle == [state |-> "idle", sub |-> 0, idx |-> 0, row |-> <<>>]

Line(m, s) == [msg |-> m, sub |-> s]

Empty == [s \in {} |-> <<>>]

Init ==
  /\ pc = "start"
  /\ subs = <<>>
  /\ cur = 0
  /\ tables = [s \in SubscriptionIds |-> <<>>]
  /\ stream = [s \in SubscriptionIds |-> <<>>]
  /\ cb = [c \in Contexts |-> Idle]
  /\ log_data = <<>>
  /\ directory = [s \in SubscriptionIds |-> <<>>]
  /\ analysis_results = Empty
  /\ report = Empty
  /\ out = <<>>

\* ------------------------------------------------------------------ main
\* line 38
ListSubscriptions ==
  /\ pc = "start"
  /\ \E l \in SubscriptionLists : subs' = l
  /\ cur' = 1
  /\ pc' = "loop"
  /\ UNCHANGED << tables, stream, cb, log_data, directory, analysis_results,
                  report, out >>

\* lines 42-43 and 56-57: the call of ingest_subscription_logs, up to the
\* call of receive.
IngestCall ==
  /\ pc = "loop"
  /\ cur <= Len(subs)
  /\ out' = Append(out, Line("Ingesting", subs[cur]))
  /\ tables' = [tables EXCEPT ![subs[cur]] = <<>>]
  /\ pc' = "receive"
  /\ UNCHANGED << subs, cur, stream, cb, log_data, directory,
                  analysis_results, report >>

\* on_event, lines 60-67 up to the evaluation of len(df): the record is
\* complete, the row is built and the label of the new row is read.
OnEventBegin(c) ==
  /\ pc = "receive"
  /\ cb[c].state = "idle"
  /\ Len(stream[subs[cur]]) < MaxEvents
  /\ \E rec \in StreamRecords(Len(stream[subs[cur]]) + 1) :
       /\ HasAllAnnotations(rec)
       /\ stream' = [stream EXCEPT ![subs[cur]] = Append(@, rec)]
       /\ cb' = [cb EXCEPT ![c] =
                   [ state |-> "write", sub |-> subs[cur],
                     idx |-> Len(tables[subs[cur]]), row |-> event_dict(rec) ]]
  /\ UNCHANGED << pc, subs, cur, tables, log_data, directory,
                  analysis_results, report, out >>

\* on_event, lines 60-66, on a record lacking an annotation: KeyError
\* leaves on_event before line 67; nothing is written, nothing is printed.
OnEventKeyError(c) ==
  /\ pc = "receive"
  /\ cb[c].state = "idle"
  /\ Len(stream[subs[cur]]) < MaxEvents
  /\ \E rec \in StreamRecords(Len(stream[subs[cur]]) + 1) :
       /\ ~HasAllAnnotations(rec)
       /\ stream' = [stream EXCEPT ![subs[cur]] = Append(@, rec)]
  /\ UNCHANGED << pc, subs, cur, tables, cb, log_data, directory,
                  analysis_results, report, out >>

\* on_event, line 67: df.loc[label] = event_dict.
OnEventWrite(c) ==
  /\ cb[c].state = "write"
  /\ tables' = [tables EXCEPT ![cb[c].sub] = SetLoc(@, cb[c].idx, cb[c].row)]
  /\ cb' = [cb EXCEPT ![c] = Idle]
  /\ UNCHANGED << pc, subs, cur, stream, log_data, directory,
                  analysis_results, report, out >>

\* receive returns from its dispatch loop: no callback is running.
CallbacksDoneMut == TRUE

CallbacksDone == \A c \in Contexts : cb[c].state = "idle"

\* lines 69-72 and 43: receive returns (the client was closed), df is
\* returned and stored under the subscription's id.  Nothing in the
\* program closes the client.
ReceiveReturn ==
  /\ pc = "receive"
  /\ CallbacksDone
  /\ log_data' = Append(log_data, subs[cur])
  /\ cur' = cur + 1
  /\ pc' = "loop"
  /\ UNCHANGED << subs, tables, stream, cb, directory, analysis_results,
                  report, out >>

\* lines 69-70 and 51-52: the client or receive raises (the stream is
\* unavailable, or an error of a callback is passed on); main prints and
\* returns.
IngestRaises ==
  /\ pc = "receive"
  /\ out' = Append(out, Line("Log analysis failed", 0))
  /\ pc' = "done"
  /\ UNCHANGED << subs, cur, tables, stream, cb, log_data, directory,
                  analysis_results, report >>

\* lines 42, 46, 76: the ingestion loop is exhausted; process_log_data
\* starts with an empty analysis_results.
ProcessCall ==
  /\ pc = "loop"
  /\ cur > Len(subs)
  /\ analysis_results' = Empty
  /\ cur' = 1
  /\ pc' = "process"
  /\ UNCHANGED << subs, tables, stream, cb, log_data, directory, report, out >>

\* lines 78-101: one pass of process_log_data's loop, the directory fetch
\* returning dir.
ProcessSub(dir) ==
  /\ pc = "process"
  /\ cur <= Len(log_data)
  /\ LET s == log_data[cur] IN
       /\ out' = Append(out, Line("Analyzing", s))
       /\ directory' = [directory EXCEPT ![s] = dir]
       /\ analysis_results' = analysis_results @@ (s :> Bundle(tables[s], dir))
  /\ cur' = cur + 1
  /\ UNCHANGED << pc, subs, tables, stream, cb, log_data, report >>

\* lines 79, 83 and 51-52: the directory fetch raises; process_log_data is
\* left with its analysis_results, main prints and returns.
ProcessFetchRaises ==
  /\ pc = "process"
  /\ cur <= Len(log_data)
  /\ out' = out \o << Line("Analyzing", log_data[cur]),
                      Line("Log analysis failed", 0) >>
  /\ analysis_results' = Empty
  /\ pc' = "done"
  /\ UNCHANGED << subs, cur, tables, stream, cb, log_data, directory, report >>

\* lines 78, 103, 46: the loop is exhausted, analysis_results is returned.
ProcessReturn ==
  /\ pc = "process"
  /\ cur > Len(log_data)
  /\ pc' = "report"
  /\ UNCHANGED << subs, cur, tables, stream, cb, log_data, directory,
                  analysis_results, report, out >>

\* lines 106-211 and 51-52: the sheets are filled; saving uses io, which
\* the module never imports, so main prints and returns.
GenerateReport ==
  /\ pc = "report"
  /\ report' = [s \in DOMAIN analysis_results |-> Sheet(analysis_results[s])]
  /\ out' = out \o << Line("Generating Excel report", 0),
                      Line("Log analysis failed", 0) >>
  /\ pc' = "done"
  /\ UNCHANGED << subs, cur, tables, stream, cb, log_data, directory,
                  analysis_results >>

MainStep ==
  \/ ListSubscriptions
  \/ IngestCall
  \/ ProcessCall
  \/ \E dir \in MainDirectories : ProcessSub(dir)
  \/ ProcessFetchRaises
  \/ ProcessReturn
  \/ GenerateReport

Next ==
  \/ MainStep
  \/ \E c \in Contexts : OnEventBegin(c)
  \/ \E c \in Contexts : OnEventKeyError(c)
  \/ \E c \in Contexts : OnEventWrite(c)
  \/ ReceiveReturn
  \/ IngestRaises

Spec == Init /\ [][Next]_vars

\* main() runs on its own thread and a started callback runs to its end;
\* the stream need not deliver, the client need not be closed or fail.
FairSpec ==
  /\ Spec
  /\ WF_vars(ListSubscriptions \/ IngestCall \/ ProcessCall \/ ProcessReturn
             \/ GenerateReport)
  /\ WF_vars((\E dir \in MainDirectories : ProcessSub(dir)) \/ ProcessFetchRaises)
  /\ WF_vars(\E c \in Contexts : OnEventWrite(c))

\* process_log_data applied to one collected table.
ProcInit ==
  /\ pc = "process"
  /\ subs = <<1>>
  /\ cur = 1
  /\ \E t \in ProcTables :
       tables = [s \in SubscriptionIds |-> IF s = 1 THEN t ELSE <<>>]
  /\ stream = [s \in SubscriptionIds |-> <<>>]
  /\ cb = [c \in Contexts |-> Idle]
  /\ log_data = <<1>>
  /\ directory = [s \in SubscriptionIds |-> <<>>]
  /\ analysis_results = Empty
  /\ report = Empty
  /\ out = <<>>

ProcNext ==
  \/ \E dir \in Directories : ProcessSub(dir)
  \/ ProcessFetchRaises
  \/ ProcessReturn
  \/ GenerateReport

ProcSpec == ProcInit /\ [][ProcNext]_vars

\* ---------------------------------------------------------------- claims
WellFormed(s) == SelectSeq(stream[s], HasAllAnnotations)
Malformed(s) == SelectSeq(stream[s], LAMBDA rec : ~HasAllAnnotations(rec))
InFlight(s) == \E c \in Contexts : cb[c].state = "write" /\ cb[c].sub = s
Occurrences(df, row) == Cardinality({i \in DOMAIN df : df[i] = row})
CountOf(df, col, k) == Cardinality({i \in DOMAIN df : df[i][col] = k})

RECURSIVE SumCounts(_)
SumCounts(summary) ==
  IF summary = <<>> THEN 0 ELSE Head(summary).Count + SumCounts(Tail(summary))

\* C1: collection for a subscription always terminates: once receive has
\* been called for a subscription, ingest_subscription_logs eventually
\* stops consuming and returns, whether the stream keeps delivering or
\* delivers nothing.  A run in which the stream reaches the cap MaxEvents
\* is not held against the claim.
C1_CollectionTerminates ==
  (pc = "receive")
    ~> (pc # "receive" \/ Len(stream[subs[cur]]) = MaxEvents)

\* C2: failure isolation: when main has finished, every listed subscription
\* has an entry in the result (a bundle, or a failure marker), whatever
\* failed for another subscription.
C2_FailureIsolation ==
  pc = "done" => \A s \in Range(subs) : s \in DOMAIN analysis_results

\* C3: enrichment preserves the event count: the enriched table has one row
\* per collected event, in order, and an event whose ResourceId is not in
\* the directory keeps null metadata.
C3_EnrichPreservesCount ==
  \A s \in DOMAIN analysis_results :
    LET logs == analysis_results[s].subscription_logs IN
    /\ Len(logs) = Len(tables[s])
    /\ \A i \in DOMAIN tables[s] :
         /\ logs[i].ResourceId = tables[s][i].ResourceId
         /\ logs[i].OperationName = tables[s][i].OperationName
         /\ logs[i].Level = tables[s][i].Level
         /\ logs[i].Message = tables[s][i].Message
         /\ (\A j \in DOMAIN directory[s] :
               directory[s][j].ResourceId # logs[i].ResourceId)
            => /\ logs[i].ResourceGroup = NULL
               /\ logs[i].Location = NULL
               /\ logs[i].Tags = NULL

\* C4: last wins: an enriched event whose ResourceId has two or more
\* directory entries carries the metadata of the last of them.
C4_LastWins ==
  \A s \in DOMAIN analysis_results :
    \A row \in Range(analysis_results[s].subscription_logs) :
      LET same == SelectSeq(directory[s],
                            LAMBDA e : e.ResourceId = row.ResourceId)
      IN Len(same) >= 2 =>
           /\ row.ResourceGroup = same[Len(same)].ResourceGroup
           /\ row.Location = same[Len(same)].Location
           /\ row.Tags = same[Len(same)].Tags

SummaryComplete(summary, df, col) ==
  /\ \A i \in DOMAIN summary : summary[i].Count = CountOf(df, col, summary[i].Key)
  /\ SumCounts(summary) = Len(df)

\* C5: summary counts are complete: each row's Count is the number of
\* collected events with that key, each summary's Counts add up to the
\* number of collected events, and an empty table gives empty summaries.
C5_CountsComplete ==
  \A s \in DOMAIN analysis_results :
    /\ SummaryComplete(analysis_results[s].operation_summary, tables[s], "OperationName")
    /\ SummaryComplete(analysis_results[s].severity_summary, tables[s], "Level")
    /\ SummaryComplete(analysis_results[s].resource_summary, tables[s], "ResourceId")
    /\ tables[s] = <<>> =>
         /\ analysis_results[s].operation_summary = <<>>
         /\ analysis_results[s].severity_summary = <<>>
         /\ analysis_results[s].resource_summary = <<>>

Ordered(summary, col) ==
  \A i, j \in DOMAIN summary :
    i < j => \/ summary[i].Count > summary[j].Count
             \/ /\ summary[i].Count = summary[j].Count
                /\ LessKey(col, summary[i].Key, summary[j].Key)

\* C6: summary ordering: every summary is ordered by descending Count, ties
\* by ascending key, and the rows the report shows as Top Operations are the
\* operations with the highest counts.
C6_SummaryOrdering ==
  /\ \A s \in DOMAIN analysis_results :
       /\ Ordered(analysis_results[s].operation_summary, "OperationName")
       /\ Ordered(analysis_results[s].severity_summary, "Level")
       /\ Ordered(analysis_results[s].resource_summary, "ResourceId")
  /\ \A s \in DOMAIN report :
       \A shown \in Range(report[s].TopOperations) :
         \A other \in Range(analysis_results[s].operation_summary) :
           other \notin Range(report[s].TopOperations)
             => shown.Count >= other.Count

\* C7: a record lacking an annotation adds no row, is counted as skipped,
\* does not keep later complete records from being appended and does not
\* end the collection of its subscription.
C7_MalformedSkipped ==
  \A s \in SubscriptionIds :
    /\ \A i \in DOMAIN tables[s] :
         \E j \in DOMAIN WellFormed(s) : tables[s][i] = event_dict(WellFormed(s)[j])
    /\ Len(SelectSeq(out, LAMBDA l : l = Line("Skipped", s))) = Len(Malformed(s))
    /\ ~InFlight(s) =>
         \A j \in DOMAIN WellFormed(s) :
           Occurrences(tables[s], event_dict(WellFormed(s)[j])) >= 1
    /\ Malformed(s) # <<>> =>
         ~(pc = "done" /\ cur <= Len(subs) /\ subs[cur] = s
           /\ s \notin Range(log_data))

\* C9: appends are serialized: once no callback of a subscription is
\* running, every complete record delivered is in the table exactly once
\* and the table is as long as the number of complete records delivered.
C9_AppendsSerialized ==
  \A s \in SubscriptionIds :
    ~InFlight(s) =>
      /\ Len(tables[s]) = Len(WellFormed(s))
      /\ \A j \in DOMAIN WellFormed(s) :
           Occurrences(tables[s], event_dict(WellFormed(s)[j])) = 1

\* C8: the summaries do not depend on arrival order: the summaries of every
\* permutation of a collected table are the stored summaries, row for row.
C8_OrderIndependent ==
  \A s \in DOMAIN analysis_results :
    \A p \in Permutations(DOMAIN tables[s]) :
      LET permuted == [i \in DOMAIN tables[s] |-> tables[s][p[i]]]
          b == Bundle(permuted, directory[s])
      IN /\ b.operation_summary = analysis_results[s].operation_summary
         /\ b.severity_summary = analysis_results[s].severity_summary
         /\ b.resource_summary = analysis_results[s].resource_summary

C8_Witness ==
  \E s \in DOMAIN analysis_results :
    /\ Len(tables[s]) >= 2
    /\ LessName(tables[s][2].OperationName, tables[s][1].OperationName)
    /\ tables[s][1].Level # tables[s][2].Level
    /\ Len(analysis_results[s].operation_summary) = 2

\* C10: stage ordering: a subscription is enriched only after its ingestion
\* has returned and no callback of it is running, the table enriched is the
\* table ingestion returned, and that table is never written afterwards.
C10_StageOrder ==
  /\ [](\A s \in DOMAIN analysis_results :
          /\ s \in Range(log_data)
          /\ pc \in {"process", "report", "done"}
          /\ ~InFlight(s)
          /\ analysis_results[s] = Bundle(tables[s], directory[s]))
  /\ [][\A s \in Range(log_data) : tables'[s] = tables[s]]_vars

C10_Witness ==
  \E s \in DOMAIN analysis_results :
    /\ Len(tables[s]) = MaxEvents
    /\ Len(stream[s]) = MaxEvents
    /\ Len(analysis_results[s].subscription_logs) >= MaxEvents

====
